---------------------------- MODULE Spec2Model ----------------------------
(***************************************************************************)
(* psychopy.visual.form.Form: import of the items, the one-pass vertical   *)
(* layout, the per-frame scroll projection (draw) and the response         *)
(* aggregation (getData, formComplete).                                    *)
(*                                                                         *)
(* Numbers.  Lengths and positions are floats in the source.  Here they    *)
(* are integers in units of 1/One, with One a multiple of 100 * 2 *        *)
(* MarkerSteps, so that every x/2 and every product with a marker          *)
(* position k/MarkerSteps the code forms is exact.  scrollbar.markerPos is *)
(* kept as the numerator k of k/MarkerSteps.                               *)
(***************************************************************************)
EXTENDS Integers, Sequences, FiniteSets, TLC

\* ---------------------------------------------------------------- bounds
MaxItems == 2

MarkerSteps == 2

MaxRows == 2

\* ------------------------------------------------------- program constants
\* __init__ defaults, in hundredths: textHeight=.03, size=(.5, .5),
\* itemPadding=0.05, pos=(0, 0); labelHeight is set to 0.02.
TextHeightPct == 3

SizePct == 50

ItemPaddingPct == 5

LabelHeightPct == 2

PosPct == 0

\* win.size[1], the window's height in pixels (the external Window).
WinSizeY == 200

One == 100 * 2 * MarkerSteps

Pct(n) == (n * One) \div 100

textHeight == Pct(TextHeightPct)
labelHeight == Pct(LabelHeightPct)
itemPadding == Pct(ItemPaddingPct)
size == <<Pct(SizePct), Pct(SizePct)>>
pos == <<Pct(PosPct), Pct(PosPct)>>

\* Python's None, and a value x that is not None.
None == <<>>
Some(x) == <<x>>

\* What an operation that returns nothing leaves as its result.
NoRet == [op |-> "none", value |-> None]

Max(a, b) == IF a >= b THEN a ELSE b
\* Python's min(): no value on an empty collection (ValueError).
Min(S) == CHOOSE x \in S : \A y \in S : x <= y
Range(s) == {s[i] : i \in 1..Len(s)}

VARIABLES
    arg,              \* the `items` argument of Form(...)
    disk,             \* the file system seen by os.path.exists and pandas
    pc,               \* "new", "layout", "ready" or "failed"
    err,              \* the exception an operation raised, or "none"
    readAs,           \* the pandas reader importItems used: "none", "csv", "excel"
    items,            \* self.items
    questions,        \* self._items['question']
    responses,        \* self._items['response']
    baseY,            \* self._baseYpositions
    virtualHeight,    \* self.virtualHeight
    markerPos,        \* self.scrollbar.markerPos, as k of k/MarkerSteps
    apertureEnabled,  \* self.aperture.enabled
    calls,            \* the render calls the last operation issued, in order
    ret               \* the value the last operation returned

vars == <<arg, disk, pc, err, readAs, items, questions, responses, baseY,
          virtualHeight, markerPos, apertureEnabled, calls, ret>>

\* ------------------------------------------------------------ importItems
surveyFields == {"aWidth", "aLayout", "qText", "aType", "qWidth", "aOptions"}

\* A header check that lets additional fields pass.
HeadersSubset(fields) == surveyFields \subseteq fields

\* _checkHeaders: NameError unless the field names are exactly surveyFields.
HeadersOk(fields) == surveyFields = fields

\* _checkOptions: ValueError unless len(options) > 1.
OptionsOk(options) == Len(options) > 1

\* One round of the `for dicts in items` loop: the exception it raises.
CheckRecord(d) ==
    IF ~HeadersOk(DOMAIN d) THEN "NameError"
    ELSE IF ~OptionsOk(d.aOptions) THEN "ValueError"
    ELSE "none"

\* The loop over a list of dicts, from index i: the first exception raised.
RECURSIVE CheckList(_, _)
CheckList(ds, i) ==
    IF i > Len(ds) THEN "none"
    ELSE IF CheckRecord(ds[i]) # "none" THEN CheckRecord(ds[i])
    ELSE CheckList(ds, i + 1)

\* `sub in s` on strings (tuples of characters).
Contains(sub, s) ==
    \E i \in 1..(Len(s) - Len(sub) + 1) : SubSeq(s, i, i + Len(sub) - 1) = sub

DotCsv == <<".", "c", "s", "v">>
DotXlsx == <<".", "x", "l", "s", "x">>
DotXls == <<".", "x", "l", "s">>

\* The reader the path selects: the `if '.csv' in items ... elif ... else`.
ReaderFor(path) ==
    IF Contains(DotCsv, path) THEN "csv"
    ELSE IF Contains(DotXlsx, path) \/ Contains(DotXls, path) THEN "excel"
    ELSE "none"

\* DataFrame.dropna(): the rows without an empty (NaN) cell, in row order.
\* A row of the table is its cells and the set of columns that are empty.
RECURSIVE DropNa(_)
DropNa(rows) ==
    IF rows = <<>> THEN <<>>
    ELSE (IF Head(rows).nan = {} THEN <<Head(rows).cells>> ELSE <<>>)
         \o DropNa(Tail(rows))

\* str.split(','): the pieces between the commas, none of them trimmed.
RECURSIVE Split(_, _)
Split(s, cur) ==
    IF s = <<>> THEN <<cur>>
    ELSE IF Head(s) = "," THEN <<cur>> \o Split(Tail(s), <<>>)
    ELSE Split(Tail(s), Append(cur, Head(s)))

SplitOptions(row) == [row EXCEPT !.aOptions = Split(row.aOptions, <<>>)]

\* The file branch once the file is read: headers, split, options.
ImportTable(table) ==
    LET kept == DropNa(table.rows)
    IN IF ~HeadersOk(table.columns) THEN [err |-> "NameError", items |-> <<>>]
       ELSE LET rows == [i \in 1..Len(kept) |-> SplitOptions(kept[i])]
            IN IF \E i \in 1..Len(rows) : ~OptionsOk(rows[i].aOptions)
               THEN [err |-> "ValueError", items |-> <<>>]
               ELSE [err |-> "none", items |-> rows]

\* importItems(items): the exception raised or the list returned, and the
\* pandas reader used.
importItems(a, d) ==
    IF a.kind = "list" THEN
        [err |-> CheckList(a.items, 1), reader |-> "none",
         items |-> IF CheckList(a.items, 1) = "none" THEN a.items ELSE <<>>]
    ELSE IF a.kind = "dict" THEN
        [err |-> CheckRecord(a.item), reader |-> "none",
         items |-> IF CheckRecord(a.item) = "none" THEN <<a.item>> ELSE <<>>]
    ELSE IF d.exists THEN
        IF ReaderFor(a.path) = "none"
        THEN [err |-> "TypeError", reader |-> "none", items |-> <<>>]
        ELSE [err |-> ImportTable(d.table).err, reader |-> ReaderFor(a.path),
              items |-> ImportTable(d.table).items]
    ELSE [err |-> "OSError", reader |-> "none", items |-> <<>>]

\* __init__ up to the call of _doLayout.
Construct ==
    /\ pc = "new"
    /\ LET r == importItems(arg, disk)
       IN /\ err' = r.err
          /\ readAs' = r.reader
          /\ items' = r.items
          /\ pc' = IF r.err = "none" THEN "layout" ELSE "failed"
    /\ questions' = <<>>
    /\ responses' = <<>>
    /\ baseY' = <<>>
    /\ virtualHeight' = 0
    /\ calls' = <<>>
    /\ ret' = NoRet
    /\ UNCHANGED <<arg, disk, markerPos, apertureEnabled>>


\* ------------------------------------------------------------- the layout
\* _doLayout's boundaries of the form.
leftEdge == pos[1] - size[1] \div 2
rightEdge == pos[1] + size[1] \div 2
topEdge == pos[2] + size[2] \div 2

\* TextStim.boundingBox[1] of a question, in pixels: what the external text
\* renderer measures for the text.
BoundingBoxY(text) ==
    CASE text = "Short" -> 2
      [] text = "Long" -> 37
      [] OTHER -> 4

\* getQuestionHeight: boundingBox[1] / float(win.size[1] / 2).
getQuestionHeight(question) == (question.boundingBoxY * One) \div (WinSizeY \div 2)

\* str.lower() on the answer types the inputs use.
Lower(s) ==
    CASE s = "Rating" -> "rating"
      [] s = "Slider" -> "slider"
      [] s = "Choice" -> "choice"
      [] OTHER -> s

\* getRespHeight: no value (UnboundLocalError) for another layout.
RespHeightDefined(item) == item.aLayout \in {"vert", "horiz"}

getRespHeight(item) ==
    IF item.aLayout = "vert" THEN Len(item.aOptions) * textHeight
    ELSE textHeight

\* _setResponse binds resp only for these answer types.
RespDefined(item) == Lower(item.aType) \in {"rating", "slider", "choice"}

\* item['aWidth'] * self.size[0], aWidth held in hundredths.
AnswerWidth(item) == (item.aWidth * size[1]) \div 100

\* The 0.03 of the slider sizes in _setResponse and _setScrollBar.
SliderThicknessPct == 3

\* _setQuestion: the TextStim, before _doLayout positions it.
setQuestion(item) ==
    [text |-> item.qText, boundingBoxY |-> BoundingBoxY(item.qText),
     pos |-> <<0, 0>>]

\* The position _doLayout gives the question.
QuestionPos(qHeight, vh) ==
    <<leftEdge, topEdge + vh - qHeight \div 2 - itemPadding>>

\* _setResponse: the Slider created for the item, unanswered.
setResponse(item, question) ==
    LET p == <<rightEdge - AnswerWidth(item), question.pos[2]>>
        aHeight == getRespHeight(item)
        aSize == IF item.aLayout = "horiz"
                 THEN <<AnswerWidth(item), Pct(SliderThicknessPct)>>
                 ELSE <<Pct(SliderThicknessPct), aHeight>>
    IN IF Lower(item.aType) \in {"rating", "slider"}
       THEN [style |-> "rating", pos |-> p,
             size |-> <<AnswerWidth(item), Pct(SliderThicknessPct)>>,
             labels |-> item.aOptions, rating |-> None, rt |-> None]
       ELSE [style |-> "radio", pos |-> p, size |-> aSize,
             labels |-> item.aOptions, rating |-> None, rt |-> None]

\* The base Y position _doLayout records for a row.
BaseYFor(vh, aHeight, qHeight) ==
    vh - Max(aHeight, qHeight) + (aHeight \div 2) - textHeight

\* A row height that leaves the padding out.
RowHeightNoPadding(aHeight, qHeight) == Max(aHeight, qHeight)

\* The height a row takes from virtualHeight.
RowHeight(aHeight, qHeight) == Max(aHeight, qHeight) + itemPadding

\* One round of `for item in self.items` in _doLayout.
LayoutItem ==
    /\ pc = "layout"
    /\ Len(baseY) < Len(items)
    /\ LET item == items[Len(baseY) + 1]
           q0 == setQuestion(item)
           qHeight == getQuestionHeight(q0)
           question == [q0 EXCEPT !.pos = QuestionPos(qHeight, virtualHeight)]
       IN /\ questions' = Append(questions, question)
          /\ IF RespHeightDefined(item) /\ RespDefined(item)
             THEN LET aHeight == getRespHeight(item)
                  IN /\ responses' = Append(responses, setResponse(item, question))
                     /\ baseY' = Append(baseY,
                                        BaseYFor(virtualHeight, aHeight, qHeight))
                     /\ virtualHeight' = virtualHeight - RowHeight(aHeight, qHeight)
                     /\ UNCHANGED <<pc, err>>
             ELSE /\ pc' = "failed"
                  /\ err' = "UnboundLocalError"
                  /\ UNCHANGED <<responses, baseY, virtualHeight>>
    /\ calls' = <<>>
    /\ ret' = NoRet
    /\ UNCHANGED <<arg, disk, readAs, items, markerPos, apertureEnabled>>

\* Whether Aperture(...) comes back enabled is the external Aperture's
\* business: either.
ApertureAfterInit == BOOLEAN

\* The end of _doLayout: the scrollbar at the top, the border, the aperture.
LayoutFinish ==
    /\ pc = "layout"
    /\ Len(baseY) = Len(items)
    /\ markerPos' = MarkerSteps
    /\ apertureEnabled' \in ApertureAfterInit
    /\ pc' = "ready"
    /\ calls' = <<>>
    /\ ret' = NoRet
    /\ UNCHANGED <<arg, disk, err, readAs, items, questions, responses, baseY,
                   virtualHeight>>


\* ----------------------------------------------------------------- draw
\* self.size[1] / (-0): size is the array the inherited BaseVisualStim.size
\* setter stores, so the quotient is inf and nothing is raised.
ZeroDivisionIsInf == TRUE

\* The comparison made with <= 1.0.
FractionVisibleAtMostOne(vh) ==
    IF vh = 0 THEN FALSE
    ELSE IF vh < 0 THEN size[2] <= -vh
    ELSE TRUE

\* fractionVisible < 1.0, with fractionVisible = size[1] / (-virtualHeight).
FractionVisibleBelowOne(vh) ==
    IF vh = 0 THEN FALSE
    ELSE IF vh < 0 THEN size[2] < -vh
    ELSE TRUE

\* An offset whose size term grows with the marker instead of shrinking.
getScrollOffetSwapped(m, ys) ==
    LET sizeOffset == (m * (size[2] - itemPadding)) \div MarkerSteps
        maxItemPos == Min(Range(ys))
    IN maxItemPos - ((m * maxItemPos) \div MarkerSteps) + sizeOffset

\* _getScrollOffet, for marker position m/MarkerSteps and base positions ys.
getScrollOffet(m, ys) ==
    LET sizeOffset == ((MarkerSteps - m) * (size[2] - itemPadding)) \div MarkerSteps
        maxItemPos == Min(Range(ys))
    IN maxItemPos - ((m * maxItemPos) \div MarkerSteps) + sizeOffset

\* A range check that forgets the lower edge.
inRangeUpperOnly(item) == item.pos[2] < size[2] \div 2

\* _inRange: strictly inside the border.
inRange(item) ==
    LET upperRange == size[2] \div 2
        lowerRange == -(size[2] \div 2)
    IN item.pos[2] < upperRange /\ item.pos[2] > lowerRange

\* An index one too far: self._baseYpositions[idx + 1].
ItemIndexOffByOne(idx, ys) == idx + 1 <= Len(ys)

\* self._baseYpositions[idx] has a value (no IndexError); idx counts from 1.
ItemIndexOk(idx, ys) == idx <= Len(ys)

\* The position draw() gives the idx-th drawable of a group.
ProjectedPos(item, idx, m, ys) ==
    <<item.pos[1], size[2] \div 2 + ys[idx] - getScrollOffet(m, ys)>>

\* The orders in which self._items.keys() can come.
KeyOrders == {<<"question", "response">>, <<"response", "question">>}

\* The first index of a group of n drawables at which draw() raises, n + 1
\* when it raises at none.
FirstBad(n) == Min({i \in 1..n : ~ItemIndexOk(i, baseY)} \cup {n + 1})

\* A group after the inner loop of draw(): repositioned up to the failure.
Projected(group) ==
    [i \in 1..Len(group) |->
        IF i < FirstBad(Len(group))
        THEN [group[i] EXCEPT !.pos = ProjectedPos(group[i], i, markerPos, baseY)]
        ELSE group[i]]

\* The draw calls of the inner loop on a group: the drawables in range.
RECURSIVE GroupCalls(_, _, _)
GroupCalls(name, group, i) ==
    IF i >= FirstBad(Len(group)) THEN <<>>
    ELSE (IF inRange(Projected(group)[i])
          THEN <<[obj |-> name, idx |-> i, clip |-> TRUE]>>
          ELSE <<>>)
         \o GroupCalls(name, group, i + 1)

\* The decorations draw() draws: the border, and the scrollbar if needed.
Decorations(vh) ==
    <<[obj |-> "border", idx |-> 0, clip |-> apertureEnabled]>>
    \o (IF FractionVisibleBelowOne(vh)
        THEN <<[obj |-> "scrollbar", idx |-> 0, clip |-> apertureEnabled]>>
        ELSE <<>>)

ApertureEnableCall == [obj |-> "aperture.enable", idx |-> 0, clip |-> apertureEnabled]

Group(name) == IF name = "question" THEN questions ELSE responses

\* draw()
Draw ==
    /\ pc = "ready"
    /\ IF virtualHeight = 0 /\ ~ZeroDivisionIsInf
       THEN /\ err' = "ZeroDivisionError"
            /\ calls' = <<>>
            /\ UNCHANGED <<questions, responses, apertureEnabled>>
       ELSE \E order \in KeyOrders :
            LET first == Group(order[1])
                second == Group(order[2])
                firstOk == FirstBad(Len(first)) > Len(first)
                ok == firstOk /\ FirstBad(Len(second)) > Len(second)
                new1 == Projected(first)
                new2 == IF firstOk THEN Projected(second) ELSE second
            IN /\ apertureEnabled' = TRUE
               /\ questions' = IF order[1] = "question" THEN new1 ELSE new2
               /\ responses' = IF order[1] = "response" THEN new1 ELSE new2
               /\ calls' = Decorations(virtualHeight) \o <<ApertureEnableCall>>
                           \o GroupCalls(order[1], first, 1)
                           \o (IF firstOk THEN GroupCalls(order[2], second, 1)
                               ELSE <<>>)
               /\ err' = IF ok THEN "none" ELSE "IndexError"
    /\ ret' = NoRet
    /\ UNCHANGED <<arg, disk, pc, readAs, items, baseY, virtualHeight, markerPos>>

\* ------------------------------------------------- getData, formComplete
\* A dict whose questions were put in with appendleft.
formDataReversed ==
    [questions |-> [i \in 1..Len(questions) |->
                       questions[Len(questions) + 1 - i].text],
     ratings |-> [i \in 1..Len(responses) |-> responses[i].rating],
     rt |-> [i \in 1..Len(responses) |-> responses[i].rt]]

\* The dict getData() builds.
formData ==
    [questions |-> [i \in 1..Len(questions) |-> questions[i].text],
     ratings |-> [i \in 1..Len(responses) |-> responses[i].rating],
     rt |-> [i \in 1..Len(responses) |-> responses[i].rt]]

\* getData()
GetData ==
    /\ pc = "ready"
    /\ ret' = [op |-> "getData", value |-> formData]
    /\ err' = "none"
    /\ calls' = <<>>
    /\ UNCHANGED <<arg, disk, pc, readAs, items, questions, responses, baseY,
                   virtualHeight, markerPos, apertureEnabled>>

\* A test by truth value, all(ratings): the rating 0 counts as missing.
AllTruthy(ratings) ==
    \A i \in 1..Len(ratings) : ratings[i] # None /\ ratings[i] # Some(0)

\* `None not in self.getData()['ratings']`
NoneNotIn(ratings) == \A i \in 1..Len(ratings) : ratings[i] # None

\* formComplete()
FormComplete ==
    /\ pc = "ready"
    /\ ret' = [op |-> "formComplete", value |-> NoneNotIn(formData.ratings)]
    /\ err' = "none"
    /\ calls' = <<>>
    /\ UNCHANGED <<arg, disk, pc, readAs, items, questions, responses, baseY,
                   virtualHeight, markerPos, apertureEnabled>>

\* --------------------------------------------------------- the environment
\* The ratings a Slider can hold once answered.
RatingValues == {0, 1}

\* The response time a Slider records with a rating.
SomeRT == 1

\* The host moves the scrollbar's marker between frames.
SetMarker ==
    /\ pc = "ready"
    /\ \E m \in 0..MarkerSteps :
          /\ m # markerPos
          /\ markerPos' = m
    /\ calls' = <<>>
    /\ ret' = NoRet
    /\ UNCHANGED <<arg, disk, pc, err, readAs, items, questions, responses, baseY,
                   virtualHeight, apertureEnabled>>

\* The participant answers (or changes the answer of) the i-th control.
Respond ==
    /\ pc = "ready"
    /\ \E i \in 1..Len(responses), r \in RatingValues :
          /\ responses[i].rating # Some(r)
          /\ responses' = [responses EXCEPT ![i].rating = Some(r),
                                            ![i].rt = Some(SomeRT)]
    /\ calls' = <<>>
    /\ ret' = NoRet
    /\ UNCHANGED <<arg, disk, pc, err, readAs, items, questions, baseY,
                   virtualHeight, markerPos, apertureEnabled>>

Next ==
    \/ Construct
    \/ LayoutItem
    \/ LayoutFinish
    \/ Draw
    \/ GetData
    \/ FormComplete
    \/ SetMarker
    \/ Respond

\* ------------------------------------------------------------ the inputs
Seqs(S, n) == UNION {[1..k -> S] : k \in 0..n}

\* A record with the six survey fields.
Item(q, t, l, o) ==
    [qText |-> q, qWidth |-> 70, aType |-> t, aWidth |-> 30, aOptions |-> o,
     aLayout |-> l]

\* Valid items: a short or a long question, a horizontal rating with two
\* labels or a vertical choice with three.
ValidItems ==
    {Item(q, "rating", "horiz", <<"Lots", "Not a lot">>) : q \in {"Short", "Long"}}
    \cup {Item(q, "Choice", "vert", <<"Male", "Female", "Other">>) :
             q \in {"Short", "Long"}}

Without(d, k) == [f \in DOMAIN d \ {k} |-> d[f]]

\* Records as a caller may pass them: well-formed, with one option only,
\* without aOptions, with a seventh field, with a seventh field and one
\* option only, with an unknown answer type.
ImportRecords ==
    LET good == Item("Short", "rating", "horiz", <<"Lots", "Not a lot">>)
    IN {good,
        [good EXCEPT !.aOptions = <<"only-one">>],
        Without(good, "aOptions"),
        good @@ ("extra" :> 1),
        [good EXCEPT !.aOptions = <<"only-one">>] @@ ("extra" :> 1),
        [good EXCEPT !.aType = "textbox"]}

NoDisk == [exists |-> FALSE, table |-> [columns |-> {}, rows |-> <<>>]]

Unbuilt ==
    /\ pc = "new"
    /\ err = "none"
    /\ readAs = "none"
    /\ items = <<>>
    /\ questions = <<>>
    /\ responses = <<>>
    /\ baseY = <<>>
    /\ virtualHeight = 0
    /\ markerPos = MarkerSteps
    /\ apertureEnabled = FALSE
    /\ calls = <<>>
    /\ ret = NoRet

\* Form(win, items=<a list of valid items>)
Init ==
    /\ arg \in {[kind |-> "list", items |-> s] : s \in Seqs(ValidItems, MaxItems)}
    /\ disk = NoDisk
    /\ Unbuilt

Spec == Init /\ [][Next]_vars

\* Form(win, items=<a list of records, or one record>)
InitImport ==
    /\ arg \in {[kind |-> "list", items |-> s] : s \in Seqs(ImportRecords, MaxItems)}
             \cup {[kind |-> "dict", item |-> d] : d \in ImportRecords}
    /\ disk = NoDisk
    /\ Unbuilt

SpecImport == InitImport /\ [][Next]_vars

\* Form(win, items=<a list of valid items, not empty>)
InitRows ==
    /\ Init
    /\ arg.items # <<>>

SpecRows == InitRows /\ [][Next]_vars

\* Paths, as tuples of characters: a.csv, a.xlsx, a.xls, a.txt, a,
\* a.csv.txt, csv/a.txt and d.xls/a.
Paths ==
    {<<"a", ".", "c", "s", "v">>,
     <<"a", ".", "x", "l", "s", "x">>,
     <<"a", ".", "x", "l", "s">>,
     <<"a", ".", "t", "x", "t">>,
     <<"a">>,
     <<"a", ".", "c", "s", "v", ".", "t", "x", "t">>,
     <<"c", "s", "v", "/", "a", ".", "t", "x", "t">>,
     <<"d", ".", "x", "l", "s", "/", "a">>}

\* The rows a file may hold: the aOptions cell is "a,b", "a" or empty.
FileRow(optionCell, nan) ==
    [cells |-> Item("Short", "rating", "horiz", optionCell), nan |-> nan]

FileRows ==
    {FileRow(<<"a", ",", "b">>, {}),
     FileRow(<<"a">>, {}),
     FileRow(<<>>, {"aOptions"})}

\* The tables a file may hold: the six columns, or aOptions missing.
Tables ==
    {[columns |-> surveyFields, rows |-> rs] : rs \in Seqs(FileRows, MaxRows)}
    \cup {[columns |-> surveyFields \ {"aOptions"},
           rows |-> [i \in 1..Len(rs) |->
                       [cells |-> Without(rs[i].cells, "aOptions"), nan |-> {}]]] :
             rs \in Seqs({FileRow(<<"a", ",", "b">>, {})}, MaxRows)}

\* Form(win, items=<a path>)
InitFile ==
    /\ arg \in {[kind |-> "path", path |-> p] : p \in Paths}
    /\ disk \in {NoDisk} \cup {[exists |-> TRUE, table |-> t] : t \in Tables}
    /\ Unbuilt

SpecFile == InitFile /\ [][Next]_vars

\* ======================================================================
\* Properties
\* ======================================================================
\* Draw was the last operation (draw() always draws the border).
Drawn == pc = "ready" /\ calls # <<>>

Called(name, i) == \E k \in 1..Len(calls) : calls[k].obj = name /\ calls[k].idx = i

\* The row heights of the first n items, summed.
RECURSIVE SumRows(_, _)
SumRows(its, n) ==
    IF n = 0 THEN 0
    ELSE SumRows(its, n - 1)
         + Max(getRespHeight(its[n]), getQuestionHeight(setQuestion(its[n])))
         + itemPadding

\* The base Y the layout owes the n-th item.
ExpectedBaseY(its, n) ==
    LET a == getRespHeight(its[n])
        q == getQuestionHeight(setQuestion(its[n]))
    IN -SumRows(its, n - 1) - Max(a, q) + a \div 2 - textHeight

\* C1: construction from N valid items yields N question drawables, N
\* response drawables and N base-Y values, the i-th built from the i-th
\* item, and getData()['questions'] is the question texts in input order.
C1_LayoutInInputOrder ==
    pc = "ready" =>
        /\ Len(questions) = Len(arg.items)
        /\ Len(responses) = Len(arg.items)
        /\ Len(baseY) = Len(arg.items)
        /\ \A i \in 1..Len(arg.items) :
              /\ questions[i].text = arg.items[i].qText
              /\ responses[i].labels = arg.items[i].aOptions
              /\ responses[i].style =
                    (IF arg.items[i].aType = "Choice" THEN "radio" ELSE "rating")
              /\ baseY[i] = ExpectedBaseY(arg.items, i)
        /\ ret.op = "getData" =>
              ret.value.questions =
                  [i \in 1..Len(arg.items) |-> arg.items[i].qText]

\* Two different items, the second-listed kind first, read back by getData.
C1_Witness ==
    /\ pc = "ready"
    /\ ret.op = "getData"
    /\ Len(arg.items) = 2
    /\ arg.items[1].qText = "Long"
    /\ arg.items[2].qText = "Short"
    /\ arg.items[1].aLayout # arg.items[2].aLayout

\* C2: after the layout virtualHeight is minus the sum of the row heights
\* (0 without items); it never increases while items are added; draw(),
\* getData(), formComplete() and marker changes leave it alone.
C2_VirtualHeight ==
    /\ [](pc = "layout" => virtualHeight = -SumRows(items, Len(baseY)))
    /\ [](pc = "ready" => virtualHeight = -SumRows(arg.items, Len(arg.items)))
    /\ [](pc = "ready" /\ arg.items = <<>> => virtualHeight = 0)
    /\ [][virtualHeight' <= virtualHeight]_vars
    /\ [][pc = "ready" => virtualHeight' = virtualHeight]_vars

\* A two-item form, drawn with the marker moved away from the top.
C2_Witness ==
    /\ Drawn
    /\ Len(items) = 2
    /\ markerPos = 0
    /\ virtualHeight < 0

\* C3: with the marker at 1 (top) the offset the projector computes is 0,
\* and draw() puts every drawable at viewportHeight/2 + its base Y.
C3_TopOfScroll ==
    /\ pc = "ready" /\ baseY # <<>> => getScrollOffet(MarkerSteps, baseY) = 0
    /\ Drawn /\ markerPos = MarkerSteps =>
          /\ \A i \in 1..Len(questions) :
                questions[i].pos[2] = size[2] \div 2 + baseY[i]
          /\ \A i \in 1..Len(responses) :
                responses[i].pos[2] = size[2] \div 2 + baseY[i]

\* Two rows drawn with the marker at the top.
C3_Witness ==
    /\ Drawn
    /\ markerPos = MarkerSteps
    /\ Len(baseY) = 2
    /\ Len(questions) = 2

\* No control has a rating yet.
Unanswered == \A i \in 1..Len(responses) : responses[i].rating = None

\* C4: formComplete() is true iff every control has a non-null rating, is
\* false on a form whose controls are all unanswered, and changes nothing.
C4_FormComplete ==
    /\ [](ret.op = "formComplete" =>
            /\ ret.value = (\A i \in 1..Len(responses) : responses[i].rating # None)
            /\ (Len(responses) > 0 /\ Unanswered => ret.value = FALSE))
    /\ [][ret'.op = "formComplete" =>
            /\ questions' = questions
            /\ responses' = responses
            /\ UNCHANGED <<items, baseY, virtualHeight, markerPos, apertureEnabled>>
         ]_vars

\* formComplete() is true on a form whose first control holds the rating 0.
C4_Witness ==
    /\ ret.op = "formComplete"
    /\ ret.value = TRUE
    /\ Len(responses) = 2
    /\ responses[1].rating = Some(0)

\* The records of the in-memory input, in order.
InputRecords == IF arg.kind = "list" THEN arg.items ELSE <<arg.item>>

BadKeys(d) == DOMAIN d # surveyFields
FewOptions(d) == "aOptions" \in DOMAIN d /\ Len(d.aOptions) < 2

Unformed == pc = "failed" /\ questions = <<>> /\ responses = <<>> /\ baseY = <<>>

\* C5 as stated: a schema error whenever any record's key set differs, an
\* options error whenever any record has fewer than two options (read as:
\* and no key set differs, since only one error can be raised), otherwise
\* the records in input order; no form when either error is raised.
C5_AsStated ==
    pc # "new" =>
        LET ds == InputRecords
            anyBadKeys == \E i \in 1..Len(ds) : BadKeys(ds[i])
            anyFewOptions == \E i \in 1..Len(ds) : FewOptions(ds[i])
        IN /\ anyBadKeys => err = "NameError"
           /\ anyFewOptions /\ ~anyBadKeys => err = "ValueError"
           /\ ~anyBadKeys /\ ~anyFewOptions =>
                 items = ds /\ err \notin {"NameError", "ValueError"}
           /\ err \in {"NameError", "ValueError"} => Unformed

\* C5, amended: import fails whenever some record has a wrong key set or
\* fewer than two options, and the error is the one of the first such
\* record in input order: a schema error if its key set differs, an options
\* error otherwise; without such a record the records are returned in input
\* order; no form is constructed when either error is raised.
C5_FirstOffender ==
    pc # "new" =>
        LET ds == InputRecords
            bad == {i \in 1..Len(ds) : BadKeys(ds[i]) \/ FewOptions(ds[i])}
        IN /\ bad # {} =>
                 LET first == CHOOSE i \in bad : \A j \in bad : i <= j
                 IN err = (IF BadKeys(ds[first]) THEN "NameError" ELSE "ValueError")
           /\ bad = {} => items = ds /\ err \notin {"NameError", "ValueError"}
           /\ err \in {"NameError", "ValueError"} => Unformed

\* A list whose first record has one option and whose second lacks a key.
C5_Witness ==
    /\ pc = "failed"
    /\ arg.kind = "list"
    /\ Len(arg.items) = 2
    /\ FewOptions(arg.items[1]) /\ ~BadKeys(arg.items[1])
    /\ BadKeys(arg.items[2])
    /\ err = "ValueError"

\* C6: once construction has succeeded no operation raises, at any marker
\* position; a form without items has virtualHeight 0 and no rows, and is
\* drawn as fully visible (no scrollbar).
C6_NoErrorAfterConstruction ==
    pc = "ready" =>
        /\ err = "none"
        /\ items = <<>> =>
              /\ virtualHeight = 0
              /\ questions = <<>> /\ responses = <<>> /\ baseY = <<>>
              /\ Drawn => ~Called("scrollbar", 0)

\* The empty form, drawn with the marker at the bottom.
C6_Witness ==
    /\ Drawn
    /\ items = <<>>
    /\ markerPos = 0

\* os.path.splitext(path)[1]: from the last dot of the last component, when
\* that dot does not start the component.
Extension(path) ==
    LET slashes == {i \in 1..Len(path) : path[i] = "/"}
        start == IF slashes = {} THEN 1
                 ELSE 1 + CHOOSE i \in slashes : \A j \in slashes : j <= i
        dots == {i \in (start + 1)..Len(path) : path[i] = "."}
    IN IF dots = {} THEN <<>>
       ELSE SubSeq(path, CHOOSE i \in dots : \A j \in dots : j <= i, Len(path))

\* C7: a path that does not exist fails with a file-not-found error; one
\* that exists with an extension other than .csv, .xlsx, .xls fails with an
\* unsupported-format error; only paths with these extensions are read.
C7_AsStated ==
    pc # "new" =>
        /\ ~disk.exists => err = "OSError"
        /\ disk.exists /\ Extension(arg.path) \notin {DotCsv, DotXlsx, DotXls}
              => err = "TypeError"
        /\ readAs # "none" => Extension(arg.path) \in {DotCsv, DotXlsx, DotXls}

\* The drawable's Y is strictly inside the viewport.
InsideY(y) == -(size[2] \div 2) < y /\ y < size[2] \div 2

\* C8: draw() sets every drawable's Y to viewportHeight/2 + baseY - offset,
\* keeps its X and the base Y values, and draws it iff the new Y is strictly
\* inside the viewport.
C8_Projection ==
    /\ [](Drawn =>
            \A i \in 1..Len(baseY) :
                LET y == size[2] \div 2 + baseY[i] - getScrollOffet(markerPos, baseY)
                IN /\ questions[i].pos[2] = y
                   /\ responses[i].pos[2] = y
                   /\ Called("question", i) <=> InsideY(y)
                   /\ Called("response", i) <=> InsideY(y))
    /\ [][pc = "ready" /\ calls' # <<>> =>
            /\ baseY' = baseY
            /\ Len(questions') = Len(questions)
            /\ Len(responses') = Len(responses)
            /\ \A i \in 1..Len(questions) : questions'[i].pos[1] = questions[i].pos[1]
            /\ \A i \in 1..Len(responses) : responses'[i].pos[1] = responses[i].pos[1]
         ]_vars

\* A frame, scrolled, in which the first row is drawn and the second, moved
\* all the same, is not.
C8_Witness ==
    /\ Drawn
    /\ Len(baseY) = 2
    /\ markerPos # MarkerSteps
    /\ Called("question", 1)
    /\ ~Called("question", 2)
    /\ questions[2].pos[2] =
          size[2] \div 2 + baseY[2] - getScrollOffet(markerPos, baseY)

\* C9: every draw() draws the border, and the scrollbar iff the content is
\* higher than the viewport.
C9_Scrollbar ==
    Drawn =>
        /\ Called("border", 0)
        /\ Called("scrollbar", 0) <=> (-virtualHeight > size[2])

\* Content exactly as high as the viewport: no scrollbar.
C9_Witness ==
    /\ Drawn
    /\ -virtualHeight = size[2]
    /\ ~Called("scrollbar", 0)

\* C10: in draw() the clip region is enabled after the border and scrollbar
\* and before every item, every item is drawn clipped, and the clip region
\* is disabled again when draw() is done.
C10_AsStated ==
    Drawn =>
        /\ \E e \in 1..Len(calls) :
              /\ calls[e].obj = "aperture.enable"
              /\ \A k \in 1..Len(calls) :
                    /\ calls[k].obj \in {"border", "scrollbar"} => k < e
                    /\ calls[k].obj \in {"question", "response"} =>
                          k > e /\ calls[k].clip
        /\ ~apertureEnabled

=============================================================================
